---- MODULE Spec2Model ----
\* Buffer organizer of Hermes (src/src/buffer_organizer.cc): the thread pool's
\* BoMove and FlushBlob tasks, the per-vbucket count of outstanding async
\* flushes with AwaitAsyncFlushingTasks, and LocalOrganizeBlob's placement loop.
EXTENDS Integers, Sequences, FiniteSets, TLC

\* ------------------------------------------------------------------ bounds
NumWorkers == 2     \* worker threads of the pool (BufferOrganizer(num_threads))
MaxTasks == 2       \* closures handed to the pool in one behaviour
MaxBuffers == 2     \* buffers of the blob LocalOrganizeBlob is called for
MaxUsed == 3        \* used bytes of the source buffer of a BoMove
MaxDests == 2       \* destination buffers of a BoMove
MaxCapacity == 2    \* capacity in bytes of a destination buffer
MaxNameLen == 5     \* characters of an RPC function name

Workers == 1..NumWorkers
\* Blobs of the hierarchy; each is a page of its file, at its own offset.
Blobs == {1, 2}
\* A blob spilled to the swap file has a negative node id in its BlobID.
SwapBlobId == -1
BlobIds == Blobs \cup {SwapBlobId}
\* Flush destinations; a vbucket is named after the file it persists to.
Files == {1, 2}
OffsetOf(b) == b - 1
Offsets == {OffsetOf(b) : b \in Blobs}
NoWorker == 0
NoFile == 0
NoBlob == 0

VARIABLES
  nTasks,       \* closures handed to pool->run so far
  enq,          \* LocalEnqueueFlushingTask between its increment and pool->run
  queue_high,   \* ThreadPool: pending high-priority closures, oldest first
  queue_low,    \* ThreadPool: pending low-priority closures, oldest first
  pc,           \* per worker: its position in the closure it runs
  cur,          \* per worker: the closure it runs
  acct,         \* per worker: what its current or last closure did
  open_flags,   \* per worker: FlushBlob's open_flags local
  blobLock,     \* per blob: the worker holding the blob lock
  fileExists,   \* per file: whether access(filename, F_OK) == 0
  fileLock,     \* per file: the worker holding flock(LOCK_EX)
  fileData,     \* per file: offset -> blob whose bytes are there (0: none)
  flushed,      \* per file: blobs whose FlushBlob wrote them and returned
  flush_count,  \* per vbucket: VBucketInfo::async_flush_count
  vbktExists,   \* per vbucket name: LocalGetVBucketInfoById finds the info
  awaitPc,      \* AwaitAsyncFlushingTasks: "idle", "polling", "returned"
  awaitVb,      \* the vbucket it waits for
  awaitSnap,    \* how many accepted flushes were outstanding at the call
  crashed,      \* FailedLibraryCall ended the process
  bufferList,   \* the organized blob's buffers: [id, bandwidth_mbps, size]
  targetCap,    \* per target of the node: remaining capacity in bytes
  orgPc,        \* LocalOrganizeBlob: "idle", "loop", "done"
  importance_score,  \* LocalOrganizeBlob's local
  epsilon,      \* LocalOrganizeBlob's parameter
  access_score, \* LocalOrganizeBlob's local
  buffer_info,  \* LocalOrganizeBlob's local, after SortBufferInfo
  org_i,        \* the loop index i of line 283, counted from 1
  org_iters,    \* how many times the loop body has run
  orgLog,       \* one entry per iteration that reached the validity gate
  mv_pc,        \* BoMove: "idle", "lock", "read", "loop", "assert", "unlock",
                \*   "returned", "aborted"
  mv_src,       \* BoMove's src: [resolved, used], used being its bytes
  mv_dests,     \* BoMove's destinations: sequence of [resolved, capacity]
  src_data,     \* BoMove's local: the bytes read from src
  mv_i,         \* BoMove's loop index i, counted from 1
  mv_offset,    \* BoMove's local offset
  remaining_src_size,  \* BoMove's local
  mv_writes,    \* the LocalWriteBufferById calls made: [dest, data, offset]
  mv_locked,    \* BoMove and the blob lock: "none", "held", "released"
  bufferIdList, \* the metadata manager's buffer-ID list of the moved blob
  boLog,        \* LocalEnqueueBoTask calls: [op, result, placed]
  score_context,      \* ComputeBlobAccessScore called on its own: the pool
  score_buffer_info,  \*   its argument
  score_result, \*   <<>> before the call, <<result>> after
  rpc_func_name,  \* ThalliumRpc::Call: func_name as passed
  rpc_pc,       \*   "idle", "called", "returned"
  rpc_is_bo,    \*   whether the buffer-organizer engine is the server
  rpc_defined,  \*   the name given to client_engine_->define
  rpc_max_read, \*   how many leading chars of func_name, its terminator
                \*   counted, IsBoFunction has read
  org_call,     \* the OrganizeBlob call made: <<>> or <<[node_id, epsilon,
                \*   importance_score]>>
  capacity0     \* per target: remaining capacity when LocalOrganizeBlob began

orgVars == <<bufferList, targetCap, orgPc, importance_score, epsilon,
             access_score, buffer_info, org_i, org_iters, orgLog>>

moveVars == <<mv_pc, mv_src, mv_dests, src_data, mv_i, mv_offset,
              remaining_src_size, mv_writes, mv_locked, bufferIdList>>
scoreVars == <<score_context, score_buffer_info, score_result>>
rpcVars == <<rpc_func_name, rpc_pc, rpc_is_bo, rpc_defined, rpc_max_read>>
callVars == <<org_call, capacity0>>
extVars == <<moveVars, boLog, scoreVars, rpcVars, callVars>>

vars == <<nTasks, enq, queue_high, queue_low, pc, cur, acct,
          open_flags, blobLock, fileExists, fileLock, fileData, flushed,
          flush_count, vbktExists, awaitPc, awaitVb, awaitSnap, crashed,
          orgVars, extVars>>

poolVars == <<queue_high, queue_low, pc, cur, acct>>
fileVars == <<fileExists, fileLock, fileData, flushed>>
awaitVars == <<awaitPc, awaitVb, awaitSnap>>

\* ------------------------------------------------------------- closures
\* std::bind(FlushBlob, context, rpc, blob_id, filename, offset, async).
FlushTask(b, f, o) ==
  [op |-> "flush", blob |-> b, file |-> f, offset |-> o]

\* std::bind(BoMove, context, src, dest, blob_id).
MoveTask(b) ==
  [op |-> "move", blob |-> b, file |-> NoFile, offset |-> 0]

NoTask ==
  [op |-> "none", blob |-> NoBlob, file |-> NoFile, offset |-> 0]

NoAcct == [op |-> "none", file |-> NoFile, decs |-> 0, locked |-> FALSE,
           unlocked |-> FALSE, persisted |-> FALSE]

\* metadata_management: a swap blob's id has a negative node id.
BlobIsInSwap(b) == b < 0

\* ThreadPool::run: the closure goes to the back of the queue of its priority.
PoolRun(t, high) ==
  /\ nTasks' = nTasks + 1
  /\ IF high
       THEN /\ queue_high' = Append(queue_high, t)
            /\ UNCHANGED queue_low
       ELSE /\ queue_low' = Append(queue_low, t)
            /\ UNCHANGED queue_high

\* Mutant: the adjustment's sign is dropped, so a decrement adds one.
LocalAdjustFlushCount_Unsigned(counts, f, adjustment) ==
  IF vbktExists[f] THEN [counts EXCEPT ![f] = @ + 1] ELSE counts

\* LocalAdjustFlushCount: fetch_add on the vbucket's counter when its info exists.
LocalAdjustFlushCount(counts, f, adjustment) ==
  IF vbktExists[f] THEN [counts EXCEPT ![f] = @ + adjustment] ELSE counts

IncrementFlushCount(counts, f) == LocalAdjustFlushCount(counts, f, 1)

\* Mutant: the decrement is lost.
DecrementFlushCount_Lost(counts, f) == LocalAdjustFlushCount(counts, f, 0)

DecrementFlushCount(counts, f) == LocalAdjustFlushCount(counts, f, -1)

\* -------------------------------------------------------------- Init
PoolInit ==
  /\ nTasks = 0
  /\ enq = <<>>
  /\ queue_high = <<>>
  /\ queue_low = <<>>
  /\ pc = [w \in Workers |-> "idle"]
  /\ cur = [w \in Workers |-> NoTask]
  /\ acct = [w \in Workers |-> NoAcct]
  /\ open_flags = [w \in Workers |-> "none"]
  /\ blobLock = [b \in Blobs |-> NoWorker]
  /\ fileExists = [f \in Files |-> f # 1]
  /\ fileLock = [f \in Files |-> NoWorker]
  /\ fileData = [f \in Files |-> [o \in Offsets |-> NoBlob]]
  /\ flushed = [f \in Files |-> {}]
  /\ flush_count = [f \in Files |-> 0]
  /\ vbktExists \in {[f \in Files |-> TRUE], [f \in Files |-> f = 1]}
  /\ awaitPc = "idle"
  /\ awaitVb = NoFile
  /\ awaitSnap = 0
  /\ crashed = FALSE

Zero == <<0, 1>>

\* No LocalOrganizeBlob call is in progress.
OrgIdle ==
  /\ bufferList = <<>>
  /\ targetCap = <<>>
  /\ orgPc = "idle"
  /\ importance_score = Zero
  /\ epsilon = Zero
  /\ access_score = Zero
  /\ buffer_info = <<>>
  /\ org_i = 1
  /\ org_iters = 0
  /\ orgLog = <<>>

\* No BoMove is being followed step by step.
MoveIdle ==
  /\ mv_pc = "idle"
  /\ mv_src = [resolved |-> FALSE, used |-> <<>>]
  /\ mv_dests = <<>>
  /\ src_data = <<>>
  /\ mv_i = 1
  /\ mv_offset = 0
  /\ remaining_src_size = 0
  /\ mv_writes = <<>>
  /\ mv_locked = "none"
  /\ bufferIdList = <<>>

\* ComputeBlobAccessScore is not being called on its own.
ScoreIdle ==
  /\ score_context = <<>>
  /\ score_buffer_info = <<>>
  /\ score_result = <<>>

\* No remote procedure call is being made.
RpcIdle ==
  /\ rpc_func_name = <<>>
  /\ rpc_pc = "idle"
  /\ rpc_is_bo = FALSE
  /\ rpc_defined = <<>>
  /\ rpc_max_read = 0

\* No OrganizeBlob call has been made.
CallIdle ==
  /\ org_call = <<>>
  /\ capacity0 = <<>>

Init ==
  /\ PoolInit /\ OrgIdle /\ MoveIdle /\ boLog = <<>> /\ ScoreIdle /\ RpcIdle
  /\ CallIdle

\* ------------------------------------------- LocalEnqueueFlushingTask
\* Lines 441-446: a swap blob is refused (result stays false); otherwise the vbucket's counter is
\* incremented before the closure is handed over.
EnqueueFlushBegin(b, f, o) ==
  /\ ~crashed
  /\ enq = <<>>
  /\ nTasks < MaxTasks
  /\ IF BlobIsInSwap(b)
       THEN UNCHANGED <<enq, flush_count>>
       ELSE /\ flush_count' = IncrementFlushCount(flush_count, f)
            /\ enq' = <<FlushTask(b, f, o)>>
  /\ UNCHANGED <<nTasks, poolVars, open_flags, blobLock, fileVars,
                 vbktExists, awaitVars, crashed>>
  /\ UNCHANGED <<orgVars, extVars>>

\* Lines 447-450: pool->run(FlushBlob(..., async = true)); result = true.
EnqueueFlushRun ==
  /\ ~crashed
  /\ enq # <<>>
  /\ PoolRun(enq[1], FALSE)
  /\ enq' = <<>>
  /\ UNCHANGED <<pc, cur, acct, open_flags, blobLock, fileVars, flush_count,
                 vbktExists, awaitVars, crashed>>
  /\ UNCHANGED <<orgVars, extVars>>

\* LocalEnqueueBoMove: pool->run(BoMove(...), priority == kHigh).
LocalEnqueueBoMove(b, high) ==
  /\ ~crashed
  /\ nTasks < MaxTasks
  /\ PoolRun(MoveTask(b), high)
  /\ UNCHANGED <<enq, pc, cur, acct, open_flags, blobLock,
                 fileVars, flush_count, vbktExists, awaitVars, crashed>>
  /\ UNCHANGED <<orgVars, extVars>>

\* ------------------------------------------------------- ThreadPool
\* An idle worker takes the oldest high-priority closure, else the oldest
\* low-priority one. The workers are identical threads: of the idle ones the
\* lowest-numbered is the one woken.
WorkerTake(w) ==
  /\ ~crashed
  /\ pc[w] = "idle"
  /\ \A v \in Workers : v < w => pc[v] # "idle"
  /\ \/ /\ queue_high # <<>>
        /\ cur' = [cur EXCEPT ![w] = Head(queue_high)]
        /\ pc' = [pc EXCEPT ![w] = Head(queue_high).op]
        /\ acct' = [acct EXCEPT ![w] = [NoAcct EXCEPT
                                          !.op = Head(queue_high).op,
                                          !.file = Head(queue_high).file]]
        /\ queue_high' = Tail(queue_high)
        /\ UNCHANGED queue_low
     \/ /\ queue_high = <<>>
        /\ queue_low # <<>>
        /\ cur' = [cur EXCEPT ![w] = Head(queue_low)]
        /\ pc' = [pc EXCEPT ![w] = Head(queue_low).op]
        /\ acct' = [acct EXCEPT ![w] = [NoAcct EXCEPT
                                          !.op = Head(queue_low).op,
                                          !.file = Head(queue_low).file]]
        /\ queue_low' = Tail(queue_low)
        /\ UNCHANGED queue_high
  /\ UNCHANGED <<nTasks, enq, open_flags, blobLock, fileVars,
                 flush_count, vbktExists, awaitVars, crashed>>
  /\ UNCHANGED <<orgVars, extVars>>

\* --------------------------------------------------------- blob lock
\* LockBlob / LocalLockBlob: a try-lock on the blob, TRUE when acquired.
LockBlobSucceeds(b) == blobLock[b] = NoWorker

\* ---------------------------------------------------------- FlushBlob
\* Mutant: the result of LockBlob is not tested.
FlushLock_IgnoreResult(w) ==
  /\ ~crashed
  /\ pc[w] = "flush"
  /\ blobLock' = [blobLock EXCEPT ![cur[w].blob] = w]
  /\ acct' = [acct EXCEPT ![w].locked = TRUE]
  /\ pc' = [pc EXCEPT ![w] = "f_access"]
  /\ UNCHANGED <<nTasks, enq, queue_high, queue_low, cur,
                 open_flags, fileVars, flush_count, vbktExists, awaitVars,
                 crashed>>
  /\ UNCHANGED <<orgVars, extVars>>

\* Mutant: the decrement sits inside the if, so a failed try-lock returns
\* without it.
FlushLock_DecrementInsideIf(w) ==
  /\ ~crashed
  /\ pc[w] = "flush"
  /\ LET b == cur[w].blob
     IN IF LockBlobSucceeds(b)
          THEN /\ blobLock' = [blobLock EXCEPT ![b] = w]
               /\ acct' = [acct EXCEPT ![w].locked = TRUE]
               /\ pc' = [pc EXCEPT ![w] = "f_access"]
               /\ UNCHANGED <<cur, open_flags>>
          ELSE /\ pc' = [pc EXCEPT ![w] = "idle"]
               /\ cur' = [cur EXCEPT ![w] = NoTask]
               /\ open_flags' = [open_flags EXCEPT ![w] = "none"]
               /\ UNCHANGED <<blobLock, acct>>
  /\ UNCHANGED <<nTasks, enq, queue_high, queue_low,
                 fileVars, flush_count, vbktExists, awaitVars,
                 crashed>>
  /\ UNCHANGED <<orgVars, extVars>>

\* Line 379: if (LockBlob(...)); a failed try-lock skips to line 418.
FlushLock(w) ==
  /\ ~crashed
  /\ pc[w] = "flush"
  /\ LET b == cur[w].blob
     IN IF LockBlobSucceeds(b)
          THEN /\ blobLock' = [blobLock EXCEPT ![b] = w]
               /\ acct' = [acct EXCEPT ![w].locked = TRUE]
               /\ pc' = [pc EXCEPT ![w] = "f_access"]
          ELSE /\ pc' = [pc EXCEPT ![w] = "f_decr"]
               /\ UNCHANGED <<blobLock, acct>>
  /\ UNCHANGED <<nTasks, enq, queue_high, queue_low, cur,
                 open_flags, fileVars, flush_count, vbktExists, awaitVars,
                 crashed>>
  /\ UNCHANGED <<orgVars, extVars>>

\* Lines 382-387: access(filename, F_OK) chooses the open flags.
FlushAccess(w) ==
  /\ ~crashed
  /\ pc[w] = "f_access"
  /\ open_flags' = [open_flags EXCEPT ![w] =
       IF fileExists[cur[w].file] THEN "O_WRONLY"
       ELSE "O_WRONLY_O_CREAT_O_TRUNC"]
  /\ pc' = [pc EXCEPT ![w] = "f_open"]
  /\ UNCHANGED <<nTasks, enq, queue_high, queue_low, cur, acct,
                 blobLock, fileVars, flush_count, vbktExists, awaitVars,
                 crashed>>
  /\ UNCHANGED <<orgVars, extVars>>

\* open(2) with the flags chosen: O_CREAT creates a missing file and O_TRUNC
\* cuts an existing one to length 0.
OpenFile(f, flags) ==
  IF flags = "O_WRONLY_O_CREAT_O_TRUNC"
    THEN /\ fileExists' = [fileExists EXCEPT ![f] = TRUE]
         /\ fileData' = [fileData EXCEPT ![f] = [o \in Offsets |-> NoBlob]]
    ELSE UNCHANGED <<fileExists, fileData>>

\* Lines 389-390 and 412-414: open; fd == -1 goes to FailedLibraryCall("open"),
\* which ends the process.
FlushOpen(w) ==
  /\ ~crashed
  /\ pc[w] = "f_open"
  /\ \/ /\ OpenFile(cur[w].file, open_flags[w])
        /\ pc' = [pc EXCEPT ![w] = "f_flock"]
        /\ UNCHANGED crashed
     \/ /\ crashed' = TRUE
        /\ UNCHANGED <<pc, fileExists, fileData>>
  /\ UNCHANGED <<nTasks, enq, queue_high, queue_low, cur, acct,
                 open_flags, blobLock, fileLock, flushed, flush_count,
                 vbktExists, awaitVars>>
  /\ UNCHANGED <<orgVars, extVars>>

\* flock(fd, LOCK_EX) blocks while another open file description holds the lock.
FlockAvailable(f) == fileLock[f] = NoWorker

\* Mutant: the flock(fd, LOCK_EX) call is missing.
FlushFlock_NoLock(w) ==
  /\ ~crashed
  /\ pc[w] = "f_flock"
  /\ pc' = [pc EXCEPT ![w] = "f_persist"]
  /\ UNCHANGED <<nTasks, enq, queue_high, queue_low, cur, acct,
                 open_flags, blobLock, fileVars,
                 flush_count, vbktExists, awaitVars, crashed>>
  /\ UNCHANGED <<orgVars, extVars>>

\* Lines 399-401: flock(fd, LOCK_EX).
FlushFlock(w) ==
  /\ ~crashed
  /\ pc[w] = "f_flock"
  /\ FlockAvailable(cur[w].file)
  /\ fileLock' = [fileLock EXCEPT ![cur[w].file] = w]
  /\ pc' = [pc EXCEPT ![w] = "f_persist"]
  /\ UNCHANGED <<nTasks, enq, queue_high, queue_low, cur, acct,
                 open_flags, blobLock, fileExists, fileData, flushed,
                 flush_count, vbktExists, awaitVars, crashed>>
  /\ UNCHANGED <<orgVars, extVars>>

\* Line 403: StdIoPersistBlob writes the blob's bytes at offset.
FlushPersist(w) ==
  /\ ~crashed
  /\ pc[w] = "f_persist"
  /\ fileData' = [fileData EXCEPT ![cur[w].file][cur[w].offset] = cur[w].blob]
  /\ acct' = [acct EXCEPT ![w].persisted = TRUE]
  /\ pc' = [pc EXCEPT ![w] = "f_funlock"]
  /\ UNCHANGED <<nTasks, enq, queue_high, queue_low, cur,
                 open_flags, blobLock, fileExists, fileLock, flushed,
                 flush_count, vbktExists, awaitVars, crashed>>
  /\ UNCHANGED <<orgVars, extVars>>

\* Mutant: the file is left locked.
FlushFunlock_KeepLock(w) ==
  /\ ~crashed
  /\ pc[w] = "f_funlock"
  /\ pc' = [pc EXCEPT ![w] = "f_unlock"]
  /\ UNCHANGED <<nTasks, enq, queue_high, queue_low, cur, acct,
                 open_flags, blobLock, fileVars,
                 flush_count, vbktExists, awaitVars, crashed>>
  /\ UNCHANGED <<orgVars, extVars>>

\* Lines 405-411: flock(fd, LOCK_UN) and close(fd).
FlushFunlock(w) ==
  /\ ~crashed
  /\ pc[w] = "f_funlock"
  /\ fileLock' = [fileLock EXCEPT ![cur[w].file] = NoWorker]
  /\ pc' = [pc EXCEPT ![w] = "f_unlock"]
  /\ UNCHANGED <<nTasks, enq, queue_high, queue_low, cur, acct,
                 open_flags, blobLock, fileExists, fileData, flushed,
                 flush_count, vbktExists, awaitVars, crashed>>
  /\ UNCHANGED <<orgVars, extVars>>

\* Line 415: UnlockBlob.
FlushUnlock(w) ==
  /\ ~crashed
  /\ pc[w] = "f_unlock"
  /\ blobLock' = [blobLock EXCEPT ![cur[w].blob] = NoWorker]
  /\ acct' = [acct EXCEPT ![w].unlocked = TRUE]
  /\ pc' = [pc EXCEPT ![w] = "f_decr"]
  /\ UNCHANGED <<nTasks, enq, queue_high, queue_low, cur,
                 open_flags, fileVars, flush_count, vbktExists, awaitVars,
                 crashed>>
  /\ UNCHANGED <<orgVars, extVars>>

\* Lines 418-420: if (async) DecrementFlushCount; then the closure returns.
FlushDecrement(w) ==
  /\ ~crashed
  /\ pc[w] = "f_decr"
  /\ flush_count' = DecrementFlushCount(flush_count, cur[w].file)
  /\ acct' = [acct EXCEPT ![w].decs = @ + 1]
  /\ flushed' = IF acct[w].persisted
                  THEN [flushed EXCEPT ![cur[w].file] = @ \cup {cur[w].blob}]
                  ELSE flushed
  /\ pc' = [pc EXCEPT ![w] = "idle"]
  /\ cur' = [cur EXCEPT ![w] = NoTask]
  /\ open_flags' = [open_flags EXCEPT ![w] = "none"]
  /\ UNCHANGED <<nTasks, enq, queue_high, queue_low, blobLock,
                 fileExists, fileLock, fileData, vbktExists, awaitVars,
                 crashed>>
  /\ UNCHANGED <<orgVars, extVars>>

\* ------------------------------------------------------------- BoMove
\* Line 183: if (LocalLockBlob(context, blob_id)); else only a warning.
MoveLock(w) ==
  /\ ~crashed
  /\ pc[w] = "move"
  /\ LET b == cur[w].blob
     IN IF LockBlobSucceeds(b)
          THEN /\ blobLock' = [blobLock EXCEPT ![b] = w]
               /\ acct' = [acct EXCEPT ![w].locked = TRUE]
               /\ pc' = [pc EXCEPT ![w] = "m_copy"]
               /\ UNCHANGED cur
          ELSE /\ pc' = [pc EXCEPT ![w] = "idle"]
               /\ cur' = [cur EXCEPT ![w] = NoTask]
               /\ UNCHANGED <<blobLock, acct>>
  /\ UNCHANGED <<nTasks, enq, queue_high, queue_low, open_flags,
                 fileVars, flush_count, vbktExists, awaitVars, crashed>>
  /\ UNCHANGED <<orgVars, extVars>>

\* Lines 184-217: the source buffer is read and copied to the destinations.
MoveCopy(w) ==
  /\ ~crashed
  /\ pc[w] = "m_copy"
  /\ pc' = [pc EXCEPT ![w] = "m_unlock"]
  /\ UNCHANGED <<nTasks, enq, queue_high, queue_low, cur, acct,
                 open_flags, blobLock, fileVars, flush_count, vbktExists,
                 awaitVars, crashed>>
  /\ UNCHANGED <<orgVars, extVars>>

\* Line 218: LocalUnlockBlob; then the closure returns.
MoveUnlock(w) ==
  /\ ~crashed
  /\ pc[w] = "m_unlock"
  /\ blobLock' = [blobLock EXCEPT ![cur[w].blob] = NoWorker]
  /\ acct' = [acct EXCEPT ![w].unlocked = TRUE]
  /\ pc' = [pc EXCEPT ![w] = "idle"]
  /\ cur' = [cur EXCEPT ![w] = NoTask]
  /\ UNCHANGED <<nTasks, enq, queue_high, queue_low, open_flags,
                 fileVars, flush_count, vbktExists, awaitVars, crashed>>
  /\ UNCHANGED <<orgVars, extVars>>

\* ------------------------------------------- AwaitAsyncFlushingTasks
IsFlushOf(t, f) == t.op = "flush" /\ t.file = f

RECURSIVE CountFlush(_, _)
CountFlush(q, f) ==
  IF q = <<>> THEN 0
  ELSE (IF IsFlushOf(Head(q), f) THEN 1 ELSE 0) + CountFlush(Tail(q), f)

\* The flushes LocalEnqueueFlushingTask handed to the pool for vbucket f whose
\* FlushBlob has not yet decremented the counter.
Outstanding(f) ==
  CountFlush(queue_low, f) + CountFlush(queue_high, f)
    + Cardinality({w \in Workers : IsFlushOf(cur[w], f)})

\* Line 539: the call starts.
AwaitCall(f) ==
  /\ ~crashed
  /\ awaitPc = "idle"
  /\ vbktExists[f]
  /\ awaitPc' = "polling"
  /\ awaitVb' = f
  /\ awaitSnap' = Outstanding(f)
  /\ UNCHANGED <<nTasks, enq, poolVars, open_flags, blobLock,
                 fileVars, flush_count, vbktExists, crashed>>
  /\ UNCHANGED <<orgVars, extVars>>

\* GetNumOutstandingFlushingTasks: a read of the vbucket's counter.
GetNumOutstandingFlushingTasks(f) == flush_count[f]

\* Mutant: the loop condition is > 1 instead of != 0.
AwaitPoll_OffByOne ==
  /\ ~crashed
  /\ awaitPc = "polling"
  /\ awaitPc' = IF GetNumOutstandingFlushingTasks(awaitVb) > 1
                  THEN "polling" ELSE "returned"
  /\ UNCHANGED <<nTasks, enq, poolVars, open_flags, blobLock,
                 fileVars, flush_count, vbktExists, awaitVb, awaitSnap,
                 crashed>>
  /\ UNCHANGED <<orgVars, extVars>>

\* Lines 546-554: one evaluation of the loop condition; nonzero sleeps and
\* polls again, zero returns.
AwaitPoll ==
  /\ ~crashed
  /\ awaitPc = "polling"
  /\ awaitPc' = IF GetNumOutstandingFlushingTasks(awaitVb) # 0
                  THEN "polling" ELSE "returned"
  /\ UNCHANGED <<nTasks, enq, poolVars, open_flags, blobLock,
                 fileVars, flush_count, vbktExists, awaitVb, awaitSnap,
                 crashed>>
  /\ UNCHANGED <<orgVars, extVars>>

\* ------------------------------------------------------- cost model
\* f32 and double values are modelled as exact fractions <<n, d>>, d > 0, in
\* lowest terms.
Abs(x) == IF x < 0 THEN -x ELSE x

RECURSIVE GCD(_, _)
GCD(a, b) == IF b = 0 THEN a ELSE GCD(b, a % b)

Rat(n, d) == LET g == GCD(Abs(n), d) IN <<n \div g, d \div g>>

RAdd(a, b) == Rat(a[1] * b[2] + b[1] * a[2], a[2] * b[2])
RSub(a, b) == Rat(a[1] * b[2] - b[1] * a[2], a[2] * b[2])
RMul(a, b) == Rat(a[1] * b[1], a[2] * b[2])
\* What an IEEE division by zero gives: 0/0 is NaN, x/0 an infinity.
NaN == <<0, 0>>
PosInf == <<1, 0>>
NegInf == <<-1, 0>>

RDiv(a, b) == IF b[1] > 0 THEN Rat(a[1] * b[2], a[2] * b[1])
              ELSE IF b[1] < 0 THEN Rat(-(a[1] * b[2]), a[2] * (-b[1]))
              ELSE IF a[1] = 0 THEN NaN
              ELSE IF a[1] > 0 THEN PosInf ELSE NegInf
RLt(a, b) == a[1] * b[2] < b[1] * a[2]
RAbs(a) == <<Abs(a[1]), a[2]>>

KILOBYTES(n) == n * 1024
MEGABYTES(n) == n * KILOBYTES(1024)

\* Lines 81-85: (f32)bytes / (f32)MEGABYTES(1).
BytesToMegabytes(bytes) == Rat(bytes, MEGABYTES(1))

\* The node's devices, one target each: bandwidth_mbps by target.
DeviceBw == <<4, 2, 1>>
Targets == 1..Len(DeviceBw)
DeviceBws == {DeviceBw[t] : t \in Targets}
\* BufferPool::min_device_bw_mbps and max_device_bw_mbps.
min_device_bw_mbps == CHOOSE x \in DeviceBws : \A y \in DeviceBws : x <= y
max_device_bw_mbps == CHOOSE x \in DeviceBws : \A y \in DeviceBws : x >= y

\* GetBufferPoolFromContext(context) on the node with the devices above.
NodeContext == [min_device_bw_mbps |-> min_device_bw_mbps,
                max_device_bw_mbps |-> max_device_bw_mbps]

\* Lines 68-79; context stands for the pool it leads to.
NormalizeAccessScore(context, raw_score, size_mb) ==
  LET min_seconds == RMul(size_mb, <<context.min_device_bw_mbps, 1>>)
      max_seconds == RMul(size_mb, <<context.max_device_bw_mbps, 1>>)
      range == RSub(max_seconds, min_seconds)
      adjusted_score == RSub(raw_score, min_seconds)
  IN RDiv(adjusted_score, range)

RECURSIVE RawScore(_)
RawScore(info) ==
  IF info = <<>> THEN Zero
  ELSE RAdd(RMul(BytesToMegabytes(Head(info).size),
                 RDiv(<<1, 1>>, <<Head(info).bandwidth_mbps, 1>>)),
            RawScore(Tail(info)))

RECURSIVE TotalSizeMb(_)
TotalSizeMb(info) ==
  IF info = <<>> THEN Zero
  ELSE RAdd(BytesToMegabytes(Head(info).size), TotalSizeMb(Tail(info)))

\* Lines 99-116.
ComputeBlobAccessScore(context, info) ==
  NormalizeAccessScore(context, RawScore(info), TotalSizeMb(info))

\* ---------------------------------------------------------- sorting
\* std::sort with a strict weak ordering, given as the set of pairs <<l, r>>
\* with comp(l, r): any arrangement in which no element comes after one it
\* must precede.
Range(s) == {s[i] : i \in 1..Len(s)}

SortedOrders(s, before) ==
  {p \in [1..Len(s) -> 1..Len(s)] :
     /\ \A i, j \in 1..Len(s) : i # j => p[i] # p[j]
     /\ \A i, j \in 1..Len(s) : i < j => <<s[p[j]], s[p[i]]>> \notin before}

Arrange(s, p) == [i \in 1..Len(s) |-> s[p[i]]]

\* Mutant: buffers of equal bandwidth are left in any order.
BufferInfoBefore_NoTieBreak(lhs, rhs, increasing) ==
  IF increasing THEN lhs.bandwidth_mbps > rhs.bandwidth_mbps
  ELSE lhs.bandwidth_mbps < rhs.bandwidth_mbps

\* Lines 118-125, the comparator of SortBufferInfo: comp is > when
\* increasing and < otherwise.
BufferInfoBefore(lhs, rhs, increasing) ==
  IF lhs.bandwidth_mbps = rhs.bandwidth_mbps
    THEN lhs.size > rhs.size
    ELSE IF increasing THEN lhs.bandwidth_mbps > rhs.bandwidth_mbps
         ELSE lhs.bandwidth_mbps < rhs.bandwidth_mbps

\* Lines 117-140.
SortBufferInfo(info, increasing) ==
  LET before == {lr \in Range(info) \X Range(info) :
                   BufferInfoBefore(lr[1], lr[2], increasing)}
  IN {Arrange(info, p) : p \in SortedOrders(info, before)}

\* Lines 143-150, the comparators of SortTargetInfo.
TargetInfoBefore(lhs, rhs, increasing) ==
  IF increasing THEN lhs.bandwidth_mbps > rhs.bandwidth_mbps
  ELSE lhs.bandwidth_mbps < rhs.bandwidth_mbps

\* Lines 142-159.
SortTargetInfo(info, increasing) ==
  LET before == {lr \in Range(info) \X Range(info) :
                   TargetInfoBefore(lr[1], lr[2], increasing)}
  IN {Arrange(info, p) : p \in SortedOrders(info, before)}

\* --------------------------------------------------- LocalOrganizeBlob
\* The blob LocalOrganizeBlob is called for.
OrgBlob == 1
\* LocalOrganizeBlob's inputs: the importance scores and tolerances tried.
ImportanceScores == {<<-1, 4>>, <<-1, 6>>, <<-1, 12>>, <<0, 1>>, <<1, 2>>}
Epsilons == {<<0, 1>>, <<1, 16>>, <<1, 4>>}
\* Line 273: the sentinel for "no explicit importance score".
NoExplicitScore == <<-1, 1>>

\* Line 280.
increasing_access_score == RLt(access_score, importance_score)

\* Lines 289-294: the targets with their bandwidths and remaining capacities.
TargetInfo ==
  [t \in Targets |->
     [id |-> t, bandwidth_mbps |-> DeviceBw[t], capacity |-> targetCap[t]]]

\* Lines 300-307: the index of the first target with room, 0 when none has.
FirstFit(target_info, size) ==
  LET fits == {j \in 1..Len(target_info) : target_info[j].capacity > size}
  IN IF fits = {} THEN 0
     ELSE CHOOSE j \in fits : \A k \in fits : j <= k

\* Lines 320-327: the chosen bandwidth in the source buffer's row.
NewBufferInfo(info, src_buffer_id, new_bandwidth_mbps) ==
  [j \in 1..Len(info) |->
     IF info[j].id = src_buffer_id
       THEN [info[j] EXCEPT !.bandwidth_mbps = new_bandwidth_mbps]
       ELSE info[j]]

\* Mutant: the test of the increasing case is used in both cases.
MoveIsValid_OneTest(increasing, new_access_score, importance, eps) ==
  ~(RLt(importance, new_access_score)
      /\ RLt(eps, RSub(new_access_score, importance)))

\* Lines 330-342: the move is not valid when it goes past the target by
\* more than epsilon.
MoveIsValid(increasing, new_access_score, importance, eps) ==
  IF increasing
    THEN ~(RLt(importance, new_access_score)
             /\ RLt(eps, RSub(new_access_score, importance)))
    ELSE ~(RLt(new_access_score, importance)
             /\ RLt(eps, RSub(importance, new_access_score)))

\* Lines 268-281: the importance score, the snapshot of the blob's buffers,
\* the access score and the sorted buffer_info. stored is the score the
\* metadata manager holds for the blob.
LocalOrganizeBlobSetup(eps, explicit_importance_score, stored) ==
  /\ orgPc = "idle"
  /\ epsilon' = eps
  /\ importance_score' = IF explicit_importance_score = NoExplicitScore
                           THEN stored ELSE explicit_importance_score
  /\ access_score' = ComputeBlobAccessScore(NodeContext, bufferList)
  /\ buffer_info' \in SortBufferInfo(bufferList,
                                     RLt(access_score', importance_score'))
  /\ org_i' = 1
  /\ org_iters' = 0
  /\ orgPc' = IF bufferList = <<>> THEN "done" ELSE "loop"
  /\ UNCHANGED <<bufferList, targetCap, orgLog>>
  /\ UNCHANGED <<nTasks, enq, queue_high, queue_low, pc, cur, acct,
                 open_flags, blobLock, fileVars, flush_count, vbktExists,
                 awaitVars, crashed>>

\* LocalOrganizeBlob called directly.
LocalOrganizeBlobBegin(eps, explicit_importance_score, stored) ==
  /\ LocalOrganizeBlobSetup(eps, explicit_importance_score, stored)
  /\ UNCHANGED extVars

\* Mutant: the loop never breaks.
WithinEpsilon_Never(importance, new_access_score, eps) == FALSE

\* Line 350: std::abs(importance_score - new_access_score) < epsilon.
WithinEpsilon(importance, new_access_score, eps) ==
  RLt(RAbs(RSub(importance, new_access_score)), eps)

\* Mutant: the loop index is not advanced when an iteration enqueues nothing.
NextIndex_Stuck(i, enqueued) == IF enqueued THEN i + 1 ELSE i

\* Line 283: ++i.
NextIndex(i, enqueued) == i + 1

\* Lines 283-353: one iteration of the loop. allocated tells whether
\* GetBuffers finds buffers for a non-empty schema.
LocalOrganizeBlobIterate(allocated) ==
  /\ orgPc = "loop"
  /\ org_iters' = org_iters + 1
  /\ \E target_info \in SortTargetInfo(TargetInfo, increasing_access_score) :
       LET src == buffer_info[org_i]
           j == FirstFit(target_info, src.size)
           dest_found == j # 0 /\ allocated
       IN IF ~dest_found
            THEN \* line 317: continue
                 /\ org_i' = NextIndex(org_i, FALSE)
                 /\ orgPc' = IF org_i' > Len(buffer_info)
                               THEN "done" ELSE "loop"
                 /\ UNCHANGED <<targetCap, orgLog, nTasks, queue_low,
                                queue_high>>
            ELSE LET target == target_info[j]
                     new_access_score ==
                       ComputeBlobAccessScore(NodeContext,
                         NewBufferInfo(buffer_info, src.id,
                                       target.bandwidth_mbps))
                     move_is_valid ==
                       MoveIsValid(increasing_access_score, new_access_score,
                                   importance_score, epsilon)
                     stop == WithinEpsilon(importance_score,
                                           new_access_score, epsilon)
                 IN /\ targetCap' =
                         [targetCap EXCEPT ![target.id] = @ - src.size]
                    /\ orgLog' = Append(orgLog,
                         [src |-> src.id, target |-> target.id,
                          new_access_score |-> new_access_score,
                          enqueued |-> move_is_valid])
                    /\ IF move_is_valid
                         THEN PoolRun(MoveTask(OrgBlob), FALSE)
                         ELSE UNCHANGED <<nTasks, queue_low, queue_high>>
                    /\ org_i' = NextIndex(org_i, move_is_valid)
                    /\ orgPc' = IF stop \/ org_i' > Len(buffer_info)
                                  THEN "done" ELSE "loop"
  /\ UNCHANGED <<bufferList, importance_score, epsilon, access_score,
                 buffer_info>>
  /\ UNCHANGED <<enq, pc, cur, acct, open_flags, blobLock, fileVars,
                 flush_count, vbktExists, awaitVars, crashed>>
  /\ UNCHANGED extVars

\* --------------------------------------------------------------- Next
Next ==
  \/ \E b \in BlobIds, f \in Files : EnqueueFlushBegin(b, f, OffsetOf(b))
  \/ EnqueueFlushRun
  \/ \E b \in Blobs : LocalEnqueueBoMove(b, FALSE)  \* kLow, as line 346
  \/ \E w \in Workers : WorkerTake(w)
  \/ \E w \in Workers : FlushLock(w)
  \/ \E w \in Workers : FlushAccess(w)
  \/ \E w \in Workers : FlushOpen(w)
  \/ \E w \in Workers : FlushFlock(w)
  \/ \E w \in Workers : FlushPersist(w)
  \/ \E w \in Workers : FlushFunlock(w)
  \/ \E w \in Workers : FlushUnlock(w)
  \/ \E w \in Workers : FlushDecrement(w)
  \/ \E w \in Workers : MoveLock(w)
  \/ \E w \in Workers : MoveCopy(w)
  \/ \E w \in Workers : MoveUnlock(w)
  \/ \E f \in Files : AwaitCall(f)
  \/ AwaitPoll

Spec == Init /\ [][Next]_vars

\* The step of worker w, wherever it is in its closure.
WorkerStep(w) ==
  \/ WorkerTake(w)
  \/ FlushLock(w)
  \/ FlushAccess(w)
  \/ FlushOpen(w)
  \/ FlushFlock(w)
  \/ FlushPersist(w)
  \/ FlushFunlock(w)
  \/ FlushUnlock(w)
  \/ FlushDecrement(w)
  \/ MoveLock(w)
  \/ MoveCopy(w)
  \/ MoveUnlock(w)

\* Fair scheduling: every thread that can take a step eventually takes one.
Fairness ==
  /\ WF_vars(EnqueueFlushRun)
  /\ WF_vars(AwaitPoll)
  /\ \A w \in Workers : WF_vars(WorkerStep(w))

LiveSpec == Init /\ [][Next]_vars /\ Fairness

\* LocalOrganizeBlob on its own: a blob of up to MaxBuffers buffers, each on
\* one of the devices, and the targets' remaining capacities.
BufferSizes == {MEGABYTES(1) \div 2, MEGABYTES(1)}
Capacities == {MEGABYTES(1) \div 2, MEGABYTES(1), MEGABYTES(2)}

BufferLists ==
  UNION {[1..n -> [bandwidth_mbps : DeviceBws, size : BufferSizes]] :
           n \in 0..MaxBuffers}

OrgInit ==
  /\ PoolInit
  /\ MoveIdle /\ boLog = <<>> /\ ScoreIdle /\ RpcIdle
  /\ org_call = <<>>
  /\ \A f \in Files : vbktExists[f]
  /\ \E l \in BufferLists :
       bufferList = [i \in 1..Len(l) |->
                       [id |-> i, bandwidth_mbps |-> l[i].bandwidth_mbps,
                        size |-> l[i].size]]
  /\ targetCap \in [Targets -> Capacities]
  /\ capacity0 = targetCap
  /\ orgPc = "idle"
  /\ importance_score = Zero
  /\ epsilon = Zero
  /\ access_score = Zero
  /\ buffer_info = <<>>
  /\ org_i = 1
  /\ org_iters = 0
  /\ orgLog = <<>>

OrgNext ==
  \/ \E eps \in Epsilons,
        explicit \in ImportanceScores \cup {NoExplicitScore},
        stored \in ImportanceScores :
       LocalOrganizeBlobBegin(eps, explicit, stored)
  \/ \E allocated \in BOOLEAN : LocalOrganizeBlobIterate(allocated)

OrgSpec == OrgInit /\ [][OrgNext]_vars

\* ------------------------------------------------------------- claims
\* Between a successful LockBlob / LocalLockBlob and the matching unlock.
InBlobSection(w) ==
  pc[w] \in {"f_access", "f_open", "f_flock", "f_persist", "f_funlock",
             "f_unlock", "m_copy", "m_unlock"}

\* Between flock(LOCK_EX) and flock(LOCK_UN).
InFileSection(w) == pc[w] \in {"f_persist", "f_funlock"}

\* C1: at any time at most one of the running BoMove and FlushBlob closures
\* for the same blob is inside its blob-locked section.
C1_OneInBlobSection ==
  \A w1 \in Workers, w2 \in Workers :
    (w1 # w2 /\ InBlobSection(w1) /\ InBlobSection(w2))
      => cur[w1].blob # cur[w2].blob

\* C1 witness: one closure is in its locked section while a second one for
\* the same blob ran into the held lock and was turned away.
C1_Witness ==
  \E w1 \in Workers, w2 \in Workers :
    /\ w1 # w2
    /\ InBlobSection(w1)
    /\ cur[w2].blob = cur[w1].blob
    /\ pc[w2] = "f_decr"
    /\ ~acct[w2].locked

EnqPending(f) == IF enq # <<>> /\ enq[1].file = f THEN 1 ELSE 0

\* C2: for each vbucket the counter equals the number of accepted flushes
\* that have not decremented yet (incremented before the hand-over to the
\* pool, decremented once after the flush work); so it is never negative and
\* is zero when no flush is outstanding.
C2_CountIsOutstanding ==
  \A f \in Files :
    vbktExists[f] =>
      /\ flush_count[f] = Outstanding(f) + EnqPending(f)
      /\ flush_count[f] >= 0

\* C2 witness: one flush of the vbucket has returned and another is still
\* outstanding.
C2_Witness ==
  \E f \in Files :
    /\ vbktExists[f]
    /\ flushed[f] # {}
    /\ flush_count[f] = 1
    /\ Outstanding(f) = 1

\* C3: a FlushBlob(async = true) that has returned called the decrement
\* exactly once, whichever path it took, and holds no blob lock: a lock it
\* acquired was released.
C3_ReturnedFlushBalanced ==
  \A w \in Workers :
    (pc[w] = "idle" /\ acct[w].op = "flush") =>
      /\ acct[w].decs = 1
      /\ acct[w].locked => acct[w].unlocked
      /\ \A b \in Blobs : blobLock[b] # w

\* C3 witness: one FlushBlob returned without the blob lock and another
\* returned after flushing.
C3_Witness ==
  \E w1 \in Workers, w2 \in Workers :
    /\ pc[w1] = "idle" /\ acct[w1].op = "flush" /\ ~acct[w1].locked
    /\ pc[w2] = "idle" /\ acct[w2].op = "flush" /\ acct[w2].persisted

\* C4: AwaitAsyncFlushingTasks returns only on reading the counter as zero,
\* and at that moment no flush accepted for the vbucket is queued or running.
C4_AwaitReturnsAtZero ==
  [][(awaitPc = "polling" /\ awaitPc' = "returned")
       => (flush_count[awaitVb] = 0 /\ Outstanding(awaitVb) = 0)]_vars

\* C4 witness: the call returned although flushes were outstanding when it
\* was made.
C4_Witness == awaitPc = "returned" /\ awaitSnap > 0

C9_OneInFileSection ==
  \A w1 \in Workers, w2 \in Workers :
    (w1 # w2 /\ InFileSection(w1) /\ InFileSection(w2))
      => cur[w1].file # cur[w2].file

\* C9 witness: one flush holds the file lock and a flush of another blob to
\* the same file waits in flock.
C9_Witness ==
  \E w1 \in Workers, w2 \in Workers :
    /\ InFileSection(w1)
    /\ pc[w2] = "f_flock"
    /\ cur[w2].file = cur[w1].file

Quiet ==
  /\ enq = <<>>
  /\ queue_high = <<>>
  /\ queue_low = <<>>
  /\ \A w \in Workers : pc[w] = "idle"

\* C10: once all flushes have completed, the file holds, at its offset, the
\* bytes of every blob whose flush wrote them, whether or not the file
\* existed beforehand.
C10_NoFlushLost ==
  Quiet =>
    \A f \in Files : \A b \in flushed[f] : fileData[f][OffsetOf(b)] = b


\* ------------------------------------------------- claims on the organizer
\* The moves LocalOrganizeBlob has handed to LocalEnqueueBoMove.
EnqueuedMoves == {k \in 1..Len(orgLog) : orgLog[k].enqueued}

\* C6: LocalOrganizeBlob never enqueues a Move whose predicted new access
\* score overshoots the importance score by more than epsilon: when the
\* importance score is above the current access score no enqueued move has
\* new - importance > epsilon, and when it is not above, no enqueued move has
\* importance - new > epsilon.
C6_NoOvershootEnqueued ==
  \A k \in EnqueuedMoves :
    LET new == orgLog[k].new_access_score IN
    /\ RLt(access_score, importance_score)
         => ~RLt(epsilon, RSub(new, importance_score))
    /\ ~RLt(access_score, importance_score)
         => ~RLt(epsilon, RSub(importance_score, new))

\* One call both rejected a move that overshoots by more than epsilon and
\* enqueued a move that goes past the importance score by less.
C6_Witness ==
  /\ \E k \in 1..Len(orgLog) :
       /\ ~orgLog[k].enqueued
       /\ RLt(epsilon,
              RAbs(RSub(orgLog[k].new_access_score, importance_score)))
  /\ \E k \in EnqueuedMoves :
       /\ orgLog[k].new_access_score # importance_score
       /\ RLt(access_score, importance_score)
            = RLt(importance_score, orgLog[k].new_access_score)

\* C7: every LocalOrganizeBlob invocation ends after at most one iteration
\* per buffer of the buffer-list snapshot, and enqueues at most one Move per
\* source buffer.
C7_OneIterationPerBuffer ==
  /\ org_iters <= Len(buffer_info)
  /\ orgPc = "loop" => org_i <= Len(buffer_info)
  /\ \A k, l \in EnqueuedMoves : k # l => orgLog[k].src # orgLog[l].src
  /\ Len(queue_low) = Cardinality(EnqueuedMoves)
  /\ Cardinality(EnqueuedMoves) <= Len(buffer_info)

\* A call on a blob of several buffers has ended after one iteration for
\* each, some with a move enqueued and some without.
C7_Witness ==
  /\ orgPc = "done"
  /\ Len(buffer_info) > 1
  /\ org_iters = Len(buffer_info)
  /\ EnqueuedMoves # {}
  /\ Cardinality(EnqueuedMoves) < Len(buffer_info)

\* C8: when a blob's importance score equals its current access score,
\* organizing the blob enqueues no Move task, whatever the targets, the
\* bandwidths and the remaining capacities.
C8_NoMoveWhenScoresEqual ==
  (orgPc # "idle" /\ importance_score = access_score)
    => (EnqueuedMoves = {} /\ queue_low = <<>>)


\* ---------------------------------------------- BoMove, step by step
\* One BoMove(context, src, destinations, blob_id) call on blob OrgBlob, run
\* by worker MoveWorker; the blob lock may be held from another node.
MoveWorker == 1
RemoteHolder == NumWorkers + 1
\* The source buffer's id, and the id of the k-th destination.
SrcBufferId == 1
DestBufferId(k) == SrcBufferId + k
ByteValues == {"a", "b"}

Min(a, b) == IF a < b THEN a ELSE b

SeqsUpTo(S, n) == UNION {[1..k -> S] : k \in 0..n}

MoveInit ==
  /\ nTasks = 0
  /\ enq = <<>>
  /\ queue_high = <<>>
  /\ queue_low = <<>>
  /\ pc = [w \in Workers |-> IF w = MoveWorker THEN "m_detail" ELSE "idle"]
  /\ cur = [w \in Workers |->
              IF w = MoveWorker THEN MoveTask(OrgBlob) ELSE NoTask]
  /\ acct = [w \in Workers |-> NoAcct]
  /\ open_flags = [w \in Workers |-> "none"]
  /\ blobLock \in {[b \in Blobs |-> NoWorker],
                   [b \in Blobs |-> IF b = OrgBlob THEN RemoteHolder
                                    ELSE NoWorker]}
  /\ fileExists = [f \in Files |-> f # 1]
  /\ fileLock = [f \in Files |-> NoWorker]
  /\ fileData = [f \in Files |-> [o \in Offsets |-> NoBlob]]
  /\ flushed = [f \in Files |-> {}]
  /\ flush_count = [f \in Files |-> 0]
  /\ vbktExists = [f \in Files |-> TRUE]
  /\ awaitPc = "idle"
  /\ awaitVb = NoFile
  /\ awaitSnap = 0
  /\ crashed = FALSE
  /\ OrgIdle /\ boLog = <<>> /\ ScoreIdle /\ RpcIdle /\ CallIdle
  /\ mv_pc = "lock"
  /\ mv_src \in [resolved : BOOLEAN, used : SeqsUpTo(ByteValues, MaxUsed)]
  /\ mv_dests \in SeqsUpTo([resolved : BOOLEAN, capacity : 1..MaxCapacity],
                           MaxDests)
  /\ src_data = <<>>
  /\ mv_i = 1
  /\ mv_offset = 0
  /\ remaining_src_size = 0
  /\ mv_writes = <<>>
  /\ mv_locked = "none"
  /\ bufferIdList = <<SrcBufferId>>

moveFrame == <<nTasks, enq, queue_high, queue_low, pc, cur, acct, open_flags,
               fileVars, flush_count, vbktExists, awaitVars, crashed, orgVars,
               boLog, scoreVars, rpcVars, callVars, mv_src, mv_dests>>

\* Mutant: the result of LocalLockBlob is not tested.
BoMoveLock_IgnoreResult ==
  /\ mv_pc = "lock"
  /\ blobLock' = [blobLock EXCEPT ![OrgBlob] = MoveWorker]
  /\ mv_locked' = "held"
  /\ mv_pc' = "read"
  /\ UNCHANGED <<src_data, mv_i, mv_offset, remaining_src_size, mv_writes,
                 bufferIdList>>
  /\ UNCHANGED moveFrame

\* Line 183: if (LocalLockBlob(context, blob_id)); else a warning and return.
BoMoveLock ==
  /\ mv_pc = "lock"
  /\ IF LockBlobSucceeds(OrgBlob)
       THEN /\ blobLock' = [blobLock EXCEPT ![OrgBlob] = MoveWorker]
            /\ mv_locked' = "held"
            /\ mv_pc' = "read"
       ELSE /\ mv_pc' = "returned"
            /\ UNCHANGED <<blobLock, mv_locked>>
  /\ UNCHANGED <<src_data, mv_i, mv_offset, remaining_src_size, mv_writes,
                 bufferIdList>>
  /\ UNCHANGED moveFrame

\* Lines 184-193: the source header is looked up and its used bytes are read;
\* an unresolved header is only warned about (line 216).
BoMoveRead ==
  /\ mv_pc = "read"
  /\ IF mv_src.resolved
       THEN /\ src_data' = mv_src.used
            /\ mv_offset' = 0
            /\ remaining_src_size' = Len(mv_src.used)
            /\ mv_i' = 1
            /\ mv_pc' = IF mv_dests = <<>> THEN "assert" ELSE "loop"
       ELSE /\ mv_pc' = "unlock"
            /\ UNCHANGED <<src_data, mv_offset, remaining_src_size, mv_i>>
  /\ UNCHANGED <<blobLock, mv_writes, mv_locked, bufferIdList>>
  /\ UNCHANGED moveFrame

\* Line 204.
PortionSize(dest_capacity, remaining) == Min(dest_capacity, remaining)

\* Mutant: the running offset is not advanced.
NextOffset_Stuck(offset, portion_size) == offset

\* Line 210: offset += portion_size.
NextOffset(offset, portion_size) == offset + portion_size

\* Lines 206-208: blob_portion, the portion_size bytes of blob.data at offset.
BlobPortion(data, offset, portion_size) ==
  SubSeq(data, offset + 1, offset + portion_size)

\* Lines 195-213: one iteration of the loop over the destinations.
BoMoveDest ==
  /\ mv_pc = "loop"
  /\ LET dest == mv_dests[mv_i]
         portion_size == PortionSize(dest.capacity, remaining_src_size)
     IN IF dest.resolved
          THEN /\ mv_writes' = Append(mv_writes,
                    [dest |-> DestBufferId(mv_i),
                     data |-> BlobPortion(src_data, mv_offset, portion_size),
                     offset |-> mv_offset])
               /\ mv_offset' = NextOffset(mv_offset, portion_size)
               /\ remaining_src_size' = remaining_src_size - portion_size
          ELSE UNCHANGED <<mv_writes, mv_offset, remaining_src_size>>
  /\ mv_i' = mv_i + 1
  /\ mv_pc' = IF mv_i' > Len(mv_dests) THEN "assert" ELSE "loop"
  /\ UNCHANGED <<blobLock, src_data, mv_locked, bufferIdList>>
  /\ UNCHANGED moveFrame

\* Line 214: assert(remaining_src_size == 0). When it does not hold, a build
\* with assertions aborts the process and a build without them goes on.
BoMoveAssert ==
  /\ mv_pc = "assert"
  /\ IF remaining_src_size = 0
       THEN mv_pc' = "unlock"
       ELSE mv_pc' \in {"aborted", "unlock"}
  /\ UNCHANGED <<blobLock, src_data, mv_i, mv_offset, remaining_src_size,
                 mv_writes, mv_locked, bufferIdList>>
  /\ UNCHANGED moveFrame

\* Line 218: LocalUnlockBlob; the function returns. Nothing between line 183
\* and here touches the blob's buffer-ID list (the TODOs of lines 175-180).
BoMoveUnlock ==
  /\ mv_pc = "unlock"
  /\ blobLock' = [blobLock EXCEPT ![OrgBlob] = NoWorker]
  /\ mv_locked' = "released"
  /\ mv_pc' = "returned"
  /\ UNCHANGED <<src_data, mv_i, mv_offset, remaining_src_size, mv_writes,
                 bufferIdList>>
  /\ UNCHANGED moveFrame

MoveNext ==
  \/ BoMoveLock
  \/ BoMoveRead
  \/ BoMoveDest
  \/ BoMoveAssert
  \/ BoMoveUnlock

MoveSpec == MoveInit /\ [][MoveNext]_vars

\* ------------------------------------------------------ claims on BoMove
RECURSIVE ConcatData(_)
ConcatData(writes) ==
  IF writes = <<>> THEN <<>>
  ELSE Head(writes).data \o ConcatData(Tail(writes))

RECURSIVE SumCapacity(_)
SumCapacity(dests) ==
  IF dests = <<>> THEN 0 ELSE Head(dests).capacity + SumCapacity(Tail(dests))

\* BoMove took the lock, found the source header and every destination
\* header, and is past its loop.
MoveResolvedAndCopied ==
  /\ mv_locked # "none"
  /\ mv_src.resolved
  /\ \A k \in 1..Len(mv_dests) : mv_dests[k].resolved
  /\ mv_pc \in {"assert", "unlock", "returned", "aborted"}

MoveSucceeded ==
  /\ MoveResolvedAndCopied
  /\ mv_pc = "returned"
  /\ remaining_src_size = 0
  /\ mv_dests # <<>>

\* C12: after a Move completes successfully the blob's buffer-ID list refers
\* to the destination buffers in place of the moved source buffer.
C12_ListRefersToDestinations ==
  MoveSucceeded =>
    bufferIdList = [k \in 1..Len(mv_dests) |-> DestBufferId(k)]


\* ------------------------------------------------- LocalEnqueueBoTask
\* BoOperation and BoPriority.
BoOperations == {"move", "copy", "delete"}
BoPriorities == {"kHigh", "kLow"}

\* std::bind(BoCopy, context, src, dest) and std::bind(BoDelete, context, src).
CopyTask == [op |-> "copy", blob |-> NoBlob, file |-> NoFile, offset |-> 0]
DeleteTask == [op |-> "delete", blob |-> NoBlob, file |-> NoFile, offset |-> 0]

\* Mutant: the test of the priority is inverted.
is_high_priority_Inverted(priority) == priority # "kHigh"

\* Lines 165 and 238: priority == BoPriority::kHigh.
is_high_priority(priority) == priority = "kHigh"

\* Lines 234-263: result is true from line 237 on; the kMove case only breaks
\* (its pool->run is commented out), kCopy and kDelete hand a closure to the
\* pool. boLog notes what the call returned and whether it called pool->run.
LocalEnqueueBoTask(op, priority) ==
  /\ ~crashed
  /\ nTasks < MaxTasks
  /\ Len(boLog) < MaxTasks
  /\ IF op = "move"
       THEN UNCHANGED <<nTasks, queue_high, queue_low>>
       ELSE PoolRun(IF op = "copy" THEN CopyTask ELSE DeleteTask,
                    is_high_priority(priority))
  /\ boLog' = Append(boLog, [op |-> op, priority |-> priority,
                             result |-> TRUE, placed |-> op # "move"])
  /\ UNCHANGED <<enq, pc, cur, acct, open_flags, blobLock, fileVars,
                 flush_count, vbktExists, awaitVars, crashed>>
  /\ UNCHANGED <<orgVars, moveVars, scoreVars, rpcVars, callVars>>

\* Lines 224-227 and 229-232: BoCopy and BoDelete print their arguments.
BoCopy(w) ==
  /\ ~crashed
  /\ pc[w] = "copy"
  /\ pc' = [pc EXCEPT ![w] = "idle"]
  /\ cur' = [cur EXCEPT ![w] = NoTask]
  /\ UNCHANGED <<nTasks, enq, queue_high, queue_low, acct, open_flags,
                 blobLock, fileVars, flush_count, vbktExists, awaitVars,
                 crashed>>
  /\ UNCHANGED <<orgVars, extVars>>

BoDelete(w) ==
  /\ ~crashed
  /\ pc[w] = "delete"
  /\ pc' = [pc EXCEPT ![w] = "idle"]
  /\ cur' = [cur EXCEPT ![w] = NoTask]
  /\ UNCHANGED <<nTasks, enq, queue_high, queue_low, acct, open_flags,
                 blobLock, fileVars, flush_count, vbktExists, awaitVars,
                 crashed>>
  /\ UNCHANGED <<orgVars, extVars>>

\* The dispatcher with tasks of both priorities.
PoolNext ==
  \/ \E b \in Blobs, priority \in BoPriorities :
       LocalEnqueueBoMove(b, is_high_priority(priority))
  \/ \E op \in BoOperations, priority \in BoPriorities :
       LocalEnqueueBoTask(op, priority)
  \/ \E w \in Workers : WorkerTake(w)
  \/ \E w \in Workers : MoveLock(w)
  \/ \E w \in Workers : MoveCopy(w)
  \/ \E w \in Workers : MoveUnlock(w)
  \/ \E w \in Workers : BoCopy(w)
  \/ \E w \in Workers : BoDelete(w)

PoolSpec == Init /\ [][PoolNext]_vars

\* ------------------------------------------------ claims on the dispatcher
\* C13: whenever a worker becomes idle and a high-priority task is pending,
\* the next task it takes is the oldest pending high-priority task; a
\* low-priority task is taken only when no high-priority task is pending; and
\* tasks of one priority class start in the order they were enqueued: a task
\* enqueued with kHigh joins the back of the high-priority queue, one enqueued
\* with kLow the back of the low-priority queue, and workers take from the
\* front.
C13_HighFirstThenFifo ==
  [][/\ \A w \in Workers :
          (pc[w] = "idle" /\ pc'[w] # "idle") =>
            IF queue_high # <<>>
              THEN /\ cur'[w] = Head(queue_high)
                   /\ queue_high' = Tail(queue_high)
                   /\ queue_low' = queue_low
              ELSE /\ queue_low # <<>>
                   /\ cur'[w] = Head(queue_low)
                   /\ queue_low' = Tail(queue_low)
                   /\ queue_high' = queue_high
     /\ Len(queue_high') > Len(queue_high) =>
          SubSeq(queue_high', 1, Len(queue_high)) = queue_high
     /\ Len(queue_low') > Len(queue_low) =>
          SubSeq(queue_low', 1, Len(queue_low)) = queue_low
     /\ (Len(boLog') > Len(boLog) /\ boLog'[Len(boLog')].placed) =>
          LET e == boLog'[Len(boLog')]
              t == IF e.op = "copy" THEN CopyTask ELSE DeleteTask
          IN IF e.priority = "kHigh"
               THEN queue_high' = Append(queue_high, t) /\ queue_low' = queue_low
               ELSE queue_low' = Append(queue_low, t) /\ queue_high' = queue_high
    ]_vars

\* A low-priority copy was enqueued, then a high-priority delete; a worker
\* has taken the delete and the copy is still pending.
C13_Witness ==
  /\ Len(boLog) = 2
  /\ boLog[1].op = "copy" /\ boLog[1].priority = "kLow"
  /\ boLog[2].op = "delete" /\ boLog[2].priority = "kHigh"
  /\ queue_low = <<CopyTask>>
  /\ \E w \in Workers : cur[w] = DeleteTask

\* C14: every BoTask whose operation is Move, Copy or Delete and for which
\* LocalEnqueueBoTask returned true has been placed on the thread pool; true
\* is never returned for a task that was not accepted.
C14_TrueMeansPlaced ==
  \A k \in 1..Len(boLog) : boLog[k].result => boLog[k].placed


\* ------------------------------------- ComputeBlobAccessScore on its own
\* The pools ComputeBlobAccessScore is called with: the slowest and fastest
\* device bandwidths, equal on a single-tier node.
ScoreContexts ==
  {c \in [min_device_bw_mbps : DeviceBws, max_device_bw_mbps : DeviceBws] :
     c.min_device_bw_mbps <= c.max_device_bw_mbps}

ScoreInit ==
  /\ PoolInit
  /\ \A f \in Files : vbktExists[f]
  /\ OrgIdle /\ MoveIdle /\ boLog = <<>> /\ RpcIdle /\ CallIdle
  /\ score_context \in ScoreContexts
  /\ \E l \in BufferLists :
       /\ \A i \in 1..Len(l) :
            /\ score_context.min_device_bw_mbps <= l[i].bandwidth_mbps
            /\ l[i].bandwidth_mbps <= score_context.max_device_bw_mbps
       /\ score_buffer_info =
            [i \in 1..Len(l) |->
               [id |-> i, bandwidth_mbps |-> l[i].bandwidth_mbps,
                size |-> l[i].size]]
  /\ score_result = <<>>

\* Lines 99-116: the call and its return value.
ScoreCall ==
  /\ score_result = <<>>
  /\ score_result' =
       <<ComputeBlobAccessScore(score_context, score_buffer_info)>>
  /\ UNCHANGED <<score_context, score_buffer_info>>
  /\ UNCHANGED <<nTasks, enq, queue_high, queue_low, pc, cur, acct,
                 open_flags, blobLock, fileVars, flush_count, vbktExists,
                 awaitVars, crashed>>
  /\ UNCHANGED <<orgVars, moveVars, boLog, rpcVars, callVars>>

ScoreNext == ScoreCall

ScoreSpec == ScoreInit /\ [][ScoreNext]_vars

\* ---------------------------------------------- claims on the cost model
One == <<1, 1>>

AllOnBandwidth(info, bw) == \A i \in 1..Len(info) : info[i].bandwidth_mbps = bw

\* C15: ComputeBlobAccessScore returns a value in [0,1] for every non-empty
\* buffer list whose bandwidths lie between the pool's min and max device
\* bandwidths (min < max): 0 when every buffer is on the fastest device and
\* 1 when every buffer is on the slowest device.
C15_ScoreInUnitInterval ==
  (/\ score_result # <<>>
   /\ score_buffer_info # <<>>
   /\ score_context.min_device_bw_mbps < score_context.max_device_bw_mbps)
  => LET result == score_result[1] IN
     /\ result[2] # 0
     /\ ~RLt(result, Zero)
     /\ ~RLt(One, result)
     /\ AllOnBandwidth(score_buffer_info, score_context.max_device_bw_mbps)
          => result = Zero
     /\ AllOnBandwidth(score_buffer_info, score_context.min_device_bw_mbps)
          => result = One

\* C16: ComputeBlobAccessScore returns 0 when the buffer list is empty and
\* when the pool's minimum and maximum device bandwidths are equal; it never
\* divides by a zero range.
C16_ZeroOnEmptyOrSingleTier ==
  (/\ score_result # <<>>
   /\ \/ score_buffer_info = <<>>
      \/ score_context.min_device_bw_mbps = score_context.max_device_bw_mbps)
  => score_result[1] = Zero


\* ------------------------------------------------- ThalliumRpc::Call
\* rpc_thallium.h. A function name is a C string: its characters, then the
\* terminator.
NameChars == {"B", "O", ":", "E"}
NUL == "NUL"
\* Line 34: kBoPrefix[] = "BO::", and line 36: sizeof(kBoPrefix) - 1.
kBoPrefix == <<"B", "O", ":", ":">>
kBoPrefixLength == Len(kBoPrefix)
\* buffer_organizer.cc line 432: "BO::EnqueueFlushingTask", E standing for
\* the rest of the name.
EnqueueFlushingTaskName == kBoPrefix \o <<"E">>

FuncNames == SeqsUpTo(NameChars, MaxNameLen)

\* func_name[i], i counted from 0; the terminator sits at Len(func_name).
CharAt(func_name, i) ==
  IF i < Len(func_name) THEN func_name[i + 1] ELSE NUL

\* Lines 46-51: the while loop, from index i on; read is how many leading
\* chars have been looked at. Gives the final i and read.
RECURSIVE BoPrefixLoop(_, _, _)
BoPrefixLoop(func_name, i, read) ==
  IF CharAt(func_name, 0) # NUL /\ i < kBoPrefixLength
    THEN IF CharAt(func_name, i) # kBoPrefix[i + 1]
           THEN [i |-> i, read |-> i + 1]
           ELSE BoPrefixLoop(func_name, i + 1, i + 1)
    ELSE [i |-> i, read |-> IF read = 0 THEN 1 ELSE read]

\* Mutant: a name is taken for a buffer-organizer name as soon as its first
\* two characters match.
IsBoFunction_TwoChars(func_name) == BoPrefixLoop(func_name, 0, 0).i >= 2

\* Lines 42-58.
IsBoFunction(func_name) == BoPrefixLoop(func_name, 0, 0).i = kBoPrefixLength

\* Lines 125-149: is_bo_func picks the server (GetServerName), and the prefix
\* is skipped in the name that is defined and called.
RpcCall(func_name) ==
  /\ rpc_pc = "idle"
  /\ rpc_func_name' = func_name
  /\ rpc_is_bo' = IsBoFunction(func_name)
  /\ rpc_defined' = IF IsBoFunction(func_name)
                      THEN SubSeq(func_name, kBoPrefixLength + 1,
                                  Len(func_name))
                      ELSE func_name
  /\ rpc_max_read' = BoPrefixLoop(func_name, 0, 0).read
  /\ rpc_pc' = "called"
  /\ UNCHANGED <<nTasks, enq, queue_high, queue_low, pc, cur, acct,
                 open_flags, blobLock, fileVars, flush_count, vbktExists,
                 awaitVars, crashed>>
  /\ UNCHANGED <<orgVars, moveVars, boLog, scoreVars, callVars>>

\* The reply has come back (or the call was response-less).
RpcReturn ==
  /\ rpc_pc = "called"
  /\ rpc_pc' = "returned"
  /\ UNCHANGED <<rpc_func_name, rpc_is_bo, rpc_defined, rpc_max_read>>
  /\ UNCHANGED <<nTasks, enq, queue_high, queue_low, pc, cur, acct,
                 open_flags, blobLock, fileVars, flush_count, vbktExists,
                 awaitVars, crashed>>
  /\ UNCHANGED <<orgVars, moveVars, boLog, scoreVars, callVars>>

\* buffer_organizer.cc lines 430-436.
EnqueueFlushingTask ==
  /\ rpc_pc = "idle"
  /\ RpcCall(EnqueueFlushingTaskName)

RpcNext ==
  \/ \E func_name \in FuncNames : RpcCall(func_name)
  \/ EnqueueFlushingTask
  \/ RpcReturn

RpcSpec == Init /\ [][RpcNext]_vars

\* ----------------------------------------------------- claims on routing
\* C17: a remote procedure call is sent to the target node's buffer-organizer
\* engine, with the 'BO::' prefix removed from the name that is looked up, if
\* and only if the function name starts with 'BO::'; every other name (the
\* empty name and names shorter than the prefix included) is sent to the main
\* engine with its name unchanged; no character past the name's terminator
\* is read.
C17_BoPrefixRouting ==
  rpc_pc # "idle" =>
    LET name == rpc_func_name
        starts == /\ Len(name) >= 4
                  /\ SubSeq(name, 1, 4) = <<"B", "O", ":", ":">>
    IN /\ rpc_is_bo <=> starts
       /\ starts => rpc_defined = SubSeq(name, 5, Len(name))
       /\ ~starts => rpc_defined = name
       /\ rpc_max_read <= Len(name) + 1

\* EnqueueFlushingTask's call went to the buffer-organizer engine under the
\* name without the prefix.
C17_Witness ==
  /\ rpc_pc = "called"
  /\ rpc_func_name = EnqueueFlushingTaskName
  /\ rpc_is_bo
  /\ rpc_defined = <<"E">>


\* -------------------------------------- claims on the organizer's choices
\* C18: in LocalOrganizeBlob the candidate targets are tried fastest-first
\* (bandwidth descending) when the access score must decrease (increasing is
\* false) and slowest-first (bandwidth ascending) when it must increase
\* (increasing is true).
C18_TargetOrderFollowsDirection ==
  orgPc = "loop" =>
    \A target_info \in SortTargetInfo(TargetInfo, increasing_access_score) :
      \A j, k \in 1..Len(target_info) :
        j < k =>
          IF increasing_access_score
            THEN target_info[j].bandwidth_mbps <= target_info[k].bandwidth_mbps
            ELSE target_info[j].bandwidth_mbps >= target_info[k].bandwidth_mbps

\* The first target, in the order given, whose remaining capacity is at
\* least size; 0 when there is none.
FirstWithRoomFor(target_info, size) ==
  LET fits == {j \in 1..Len(target_info) : target_info[j].capacity >= size}
  IN IF fits = {} THEN 0
     ELSE CHOOSE j \in fits : \A k \in fits : j <= k

\* C19: for each source buffer the organizer picks the first target in sorted
\* order whose remaining capacity is greater than or equal to the buffer's
\* size, a target whose remaining capacity equals that size included; if no
\* target qualifies no Move is enqueued for that buffer and the loop goes on
\* to the next buffer.
C19_FirstTargetWithRoom ==
  orgPc = "loop" =>
    \A target_info \in SortTargetInfo(TargetInfo, increasing_access_score) :
      FirstFit(target_info, buffer_info[org_i].size)
        = FirstWithRoomFor(target_info, buffer_info[org_i].size)

\* C20: once an iteration of LocalOrganizeBlob yields a predicted score with
\* |importance - new| < epsilon the loop stops: that iteration is the last
\* one, and no Move is enqueued for a source buffer that comes later in the
\* sorted order.
C20_StopsWithinEpsilon ==
  \A k \in 1..Len(orgLog) :
    RLt(RAbs(RSub(importance_score, orgLog[k].new_access_score)), epsilon) =>
      /\ k = Len(orgLog)
      /\ orgPc = "done"
      /\ Len(queue_low) = Cardinality({l \in 1..k : orgLog[l].enqueued})

\* A call stopped on a score within epsilon of the importance score while
\* buffers later in the order had not been tried.
C20_Witness ==
  /\ orgPc = "done"
  /\ orgLog # <<>>
  /\ RLt(RAbs(RSub(importance_score,
                   orgLog[Len(orgLog)].new_access_score)), epsilon)
  /\ org_iters < Len(buffer_info)


\* ------------------------------------------- BoMove without the blob lock
\* C21: if BoMove cannot acquire the blob lock it reads no source buffer,
\* writes no destination buffer, does not retry and does not call unlock for
\* that blob: its one step from the lock attempt is the return, with the
\* lock, the bytes read and the writes made left as they were, and it takes
\* no step after it has returned.
C21_LockFailureAborts ==
  [][/\ mv_pc # "returned"
     /\ (mv_pc = "lock" /\ blobLock[OrgBlob] # NoWorker) =>
          /\ mv_pc' = "returned"
          /\ blobLock' = blobLock
          /\ mv_locked' = "none"
          /\ src_data' = <<>>
          /\ mv_writes' = <<>>
    ]_vars

\* A move with bytes to copy and somewhere to copy them has returned without
\* the lock, which is still held from the other node.
C21_Witness ==
  /\ mv_pc = "returned"
  /\ mv_locked = "none"
  /\ blobLock[OrgBlob] = RemoteHolder
  /\ mv_src.resolved /\ mv_src.used # <<>>
  /\ mv_dests # <<>> /\ mv_dests[1].resolved
  /\ src_data = <<>> /\ mv_writes = <<>>


\* ------------------------------------------------ claims on SortBufferInfo
\* C22: SortBufferInfo orders buffers by bandwidth descending when increasing
\* is true and ascending when increasing is false, and in both cases puts the
\* larger of two buffers of equal bandwidth first; the result holds the
\* buffers it was given.
C22_BufferOrder ==
  orgPc # "idle" =>
    /\ Len(buffer_info) = Len(bufferList)
    /\ \A i \in 1..Len(bufferList) :
         \E j \in 1..Len(buffer_info) : buffer_info[j] = bufferList[i]
    /\ \A j, k \in 1..Len(buffer_info) :
         j < k =>
           /\ RLt(access_score, importance_score) =>
                buffer_info[j].bandwidth_mbps >= buffer_info[k].bandwidth_mbps
           /\ ~RLt(access_score, importance_score) =>
                buffer_info[j].bandwidth_mbps <= buffer_info[k].bandwidth_mbps
           /\ buffer_info[j].bandwidth_mbps = buffer_info[k].bandwidth_mbps =>
                buffer_info[j].size >= buffer_info[k].size

\* Two buffers of one bandwidth, the smaller listed first, have been sorted:
\* the larger now comes first.
C22_Witness ==
  /\ orgPc # "idle"
  /\ Len(bufferList) = 2
  /\ bufferList[1].bandwidth_mbps = bufferList[2].bandwidth_mbps
  /\ bufferList[1].size < bufferList[2].size
  /\ buffer_info[1] = bufferList[2]


\* ------------------------------------- claims on the moves of one call
\* The blob's buffers as they are once every enqueued Move has run: each
\* moved buffer is on the device of its Move's target.
AfterEnqueuedMoves ==
  [j \in 1..Len(bufferList) |->
     IF \E k \in EnqueuedMoves : orgLog[k].src = bufferList[j].id
       THEN LET k == CHOOSE l \in EnqueuedMoves :
                       orgLog[l].src = bufferList[j].id
            IN [bufferList[j] EXCEPT
                  !.bandwidth_mbps = DeviceBw[orgLog[k].target]]
       ELSE bufferList[j]]

\* C23: the access score predicted for a blob after applying together all the
\* Moves enqueued by one LocalOrganizeBlob invocation does not overshoot the
\* importance score by more than epsilon.
C23_CombinedMovesNoOvershoot ==
  (orgPc = "done" /\ bufferList # <<>>) =>
    LET combined == ComputeBlobAccessScore(NodeContext, AfterEnqueuedMoves)
    IN /\ RLt(access_score, importance_score)
            => ~RLt(epsilon, RSub(combined, importance_score))
       /\ ~RLt(access_score, importance_score)
            => ~RLt(epsilon, RSub(importance_score, combined))


\* ---------------------------------------- claims on flushing and waiting
\* C24: when AwaitAsyncFlushingTasks returns, every flush task accepted for
\* that vbucket has written its blob to the file, in every interleaving with
\* concurrent Move or Flush tasks on the same blob: no flush of the vbucket
\* has finished, and been counted as completed, without having persisted.
C24_AwaitMeansPersisted ==
  [][(awaitPc = "polling" /\ awaitPc' = "returned") =>
       \A w \in Workers :
         (pc[w] = "idle" /\ acct[w].op = "flush" /\ acct[w].file = awaitVb
            /\ acct[w].decs > 0)
           => acct[w].persisted
    ]_vars


\* ------------------------------------------------------- OrganizeBlob
\* The nodes; the blob's authoritative node is what HashString gives for its
\* internal name.
Nodes == {1, 2}
target_node == 1

\* The handler of "RemoteOrganizeBlob" on the authoritative node: it is given
\* the internal name and epsilon, and so calls LocalOrganizeBlob with no
\* explicit importance score.
RemoteOrganizeBlob(eps, stored) ==
  LocalOrganizeBlobSetup(eps, NoExplicitScore, stored)

\* Lines 356-369, called on node node_id.
OrganizeBlob(node_id, eps, importance, stored) ==
  /\ org_call = <<>>
  /\ org_call' = <<[node_id |-> node_id, epsilon |-> eps,
                    importance_score |-> importance]>>
  /\ IF target_node = node_id
       THEN LocalOrganizeBlobSetup(eps, importance, stored)
       ELSE RemoteOrganizeBlob(eps, stored)
  /\ UNCHANGED <<moveVars, boLog, scoreVars, rpcVars, capacity0>>

RouteNext ==
  \/ \E node_id \in Nodes, eps \in Epsilons,
        importance \in ImportanceScores, stored \in ImportanceScores :
       OrganizeBlob(node_id, eps, importance, stored)
  \/ \E allocated \in BOOLEAN : LocalOrganizeBlobIterate(allocated)

RouteSpec == OrgInit /\ [][RouteNext]_vars

\* C25: OrganizeBlob called with the same bucket, blob name, epsilon and
\* explicit importance score makes the authoritative node run
\* LocalOrganizeBlob with that same epsilon and that same importance score,
\* whichever node the call is made from.
C25_SameArgumentsFromAnyNode ==
  (org_call # <<>> /\ orgPc # "idle") =>
    /\ epsilon = org_call[1].epsilon
    /\ importance_score = org_call[1].importance_score

\* ------------------------------------------- destination buffers' owners
RECURSIVE BytesHandedToMoves(_, _)
BytesHandedToMoves(log, t) ==
  IF log = <<>> THEN 0
  ELSE (IF Head(log).enqueued /\ Head(log).target = t
          THEN (CHOOSE b \in Range(bufferList) : b.id = Head(log).src).size
          ELSE 0)
       + BytesHandedToMoves(Tail(log), t)

\* C26: every destination buffer obtained from GetBuffers during
\* LocalOrganizeBlob is either handed to an enqueued Move task or released
\* back to the buffer pool before the invocation ends: at the end each
\* target's remaining capacity is what it was at the start less the bytes of
\* the destinations handed to enqueued Moves.
C26_DestinationsHaveOwners ==
  orgPc = "done" =>
    \A t \in Targets :
      targetCap[t] = capacity0[t] - BytesHandedToMoves(orgLog, t)


====
